---- MODULE Spec2Model ----
(***************************************************************************)
(* Event-loop / window-identity / target-scoping subsystem of taokt        *)
(* (taokt/src/main/rust/app.rs, events.rs, types.rs).                      *)
(*                                                                         *)
(* The loop thread "main" runs loop runs (run_with_config or               *)
(* run_return_loop_with_config); a handler may start another loop run from *)
(* inside one of its callbacks, so the runs of the loop thread form a      *)
(* stack.  The thread "bg" is a background thread that holds a clone of    *)
(* the Arc<App> and calls App operations concurrently.  The native engine  *)
(* (tao) is the environment: it chooses the events it pumps, the native    *)
(* window ids it hands out and whether a build succeeds.                   *)
(*                                                                         *)
(* The specifications share the actions: Spec (window identity), SpecScope *)
(* (target scoping), SpecLoop (loop driver), SpecEvents (event             *)
(* translation), SpecFlow (control flow), SpecProxy and FairProxy (user    *)
(* events) and SpecPlatform (platforms).                                   *)
(***************************************************************************)
EXTENDS Integers, Sequences, FiniteSets, TLC

\* ------------------------------------------------------------------ bounds
MaxRuns == 2        \* loop runs started in the process
MaxBatches == 2     \* pumps entered in the process (run_return batches, run pumps)
MaxEvents == 2      \* native events pumped in the process, LoopDestroyed apart
NumNative == 2      \* distinct native window identifiers the engine owns
MaxPopulated == 1   \* populated Option fields of a RawWindowHandle built by user code

NativeIds == 1..NumNative
Threads == {"main", "bg"}
LoopThread == "main"

\* std::ptr::null(); the target pointer of loop run r is r
Null == 0

VARIABLES
    slot,      \* CURRENT_TARGET, one cell per thread
    stack,     \* loop runs active on the loop thread, innermost last
    runs,      \* per loop run: position, control flow, current event, trace
    apps,      \* per loop run: the App it created (counter and registry)
    seen,      \* per App: native ids in the order map_window_id first saw them
    given,     \* per App: stable ids create_window has put into a Window
    live,      \* native ids of the windows that currently exist
    entered,   \* number of pumps the engine has entered
    pumped,    \* number of native events the engine has pumped
    last,      \* the App operation call that has just returned, and its result
    exited,    \* the process has exited (run-forever mode ended)
    platform,  \* target_os of the build
    calls      \* map_window_id calls in progress, per thread, and what calls returned

vars == <<slot, stack, runs, apps, seen, given, live, entered, pumped, last, exited, platform, calls>>

\* ------------------------------------------------------------ error values
TaoError_message(details) == [kind |-> "Message", details |-> details]

TaoError_Unsupported == [kind |-> "Unsupported", details |-> ""]

Ok == [kind |-> "Ok", details |-> ""]

NoActiveTarget == "No active EventLoopWindowTarget"

OsErrorText == "os error"

\* impl From<tao::error::OsError> for TaoError
TaoError_from_OsError == TaoError_message(OsErrorText)

\* --------------------------------------------------------------- registry
\* lock is the owner of the Mutex around window_ids
NewApp == [next_window_id |-> 1, window_ids |-> [n \in NativeIds |-> 0], lock |-> "none"]

\* map_window_id without the lookup: every call allocates and inserts
map_window_id_noLookup(app, id) ==
    [app |-> [next_window_id |-> app.next_window_id + 1,
              window_ids |-> [app.window_ids EXCEPT ![id] = app.next_window_id],
              lock |-> app.lock],
     ret |-> app.next_window_id]

\* map_window_id with the fetch_add moved in front of the lookup
map_window_id_eagerCounter(app, id) ==
    IF app.window_ids[id] # 0
    THEN [app |-> [app EXCEPT !.next_window_id = @ + 1], ret |-> app.window_ids[id]]
    ELSE [app |-> [next_window_id |-> app.next_window_id + 1,
                   window_ids |-> [app.window_ids EXCEPT ![id] = app.next_window_id],
                   lock |-> app.lock],
          ret |-> app.next_window_id]

\* App::map_window_id: the new App value and the id returned
map_window_id(app, id) ==
    IF app.window_ids[id] # 0
    THEN [app |-> app, ret |-> app.window_ids[id]]
    ELSE [app |-> [next_window_id |-> app.next_window_id + 1,
                   window_ids |-> [app.window_ids EXCEPT ![id] = app.next_window_id],
                   lock |-> app.lock],
          ret |-> app.next_window_id]

\* first-observation order of the native ids presented to map_window_id
Observe(s, id) == IF \E k \in 1..Len(s) : s[k] = id THEN s ELSE Append(s, id)

\* ------------------------------------------------------------ thread slot
\* a closure that does not set the guard
TargetGuard_set_noBind(s, t, ptr) == s

\* TargetGuard::set
TargetGuard_set(s, t, ptr) == [s EXCEPT ![t] = ptr]

\* a guard whose drop leaves the cell as it is
TargetGuard_drop_noClear(s, t) == s

\* impl Drop for TargetGuard
TargetGuard_drop(s, t) == [s EXCEPT ![t] = Null]

\* with_target over one process-wide cell instead of a thread-local one
with_target_ptr_global(t) == slot[LoopThread]

\* the pointer App::with_target reads on thread t
with_target_ptr(t) == slot[t]

\* with_target reporting the null pointer as Unsupported
with_target_unbound_Unsupported == TaoError_Unsupported

\* with_target reporting the null pointer with the engine's error text
with_target_unbound_osError == TaoError_message(OsErrorText)

\* the error App::with_target returns when the pointer is null
with_target_unbound == TaoError_message(NoActiveTarget)

\* ------------------------------------------------------------- directives
Directives == {"Keep", "Wait", "Poll", "Exit", "WaitUntil"}

\* the directives the handlers return here (Poll and WaitUntil are applied
\* the way Wait is)
Returned == {"Keep", "Wait", "Exit"}

\* to_tao turning Keep into Some(ControlFlow::Poll)
to_tao_keepAsPoll(d) == IF d = "Keep" THEN "Poll" ELSE d

\* ControlFlow::to_tao; "None" is Option::None
to_tao(d) == IF d = "Keep" THEN "None" ELSE d

\* ----------------------------------------------------------------- events
\* an event is [kind, window_id, inner]; inner is the payload of the variant
\* (start cause, window event, device event, user event, has_visible_windows)
\* as [variant, value], value being the text an Other variant carries
NoInner == [variant |-> "", value |-> ""]

Inner(v) == [variant |-> v, value |-> ""]

NoEvent == [kind |-> "None", window_id |-> 0, inner |-> NoInner]

WindowKinds == {"WindowEvent", "RedrawRequested"}

NewEvents == [kind |-> "NewEvents", window_id |-> 0, inner |-> Inner("Poll")]

Suspended == [kind |-> "Suspended", window_id |-> 0, inner |-> NoInner]

\* the events the engine pumps in the loop specifications
NativeEvents ==
    {[kind |-> "WindowEvent", window_id |-> n, inner |-> Inner("CloseRequested")] : n \in NativeIds}
        \cup {[kind |-> "RedrawRequested", window_id |-> n, inner |-> NoInner] : n \in NativeIds}
        \cup {NewEvents, Suspended}

LoopDestroyed == [kind |-> "LoopDestroyed", window_id |-> 0, inner |-> NoInner]

\* tao::event::StartCause
StartCauses == {"Init", "Poll", "WaitCancelled", "ResumeTimeReached"}

\* tao::event::WindowEvent: the variants TaoWindowEvent has, and two it has not
WindowVariants ==
    {"CloseRequested", "Destroyed", "DroppedFile", "KeyboardInput", "ModifiersChanged",
     "CursorMoved", "CursorEntered", "MouseInput", "Moved", "ThemeChanged",
     "Resized", "Focused"}

\* tao::event::DeviceEvent: the variants TaoDeviceEvent has, and one it has not
DeviceVariants == {"MouseMotion", "MouseWheel", "Button", "Key", "Added"}

\* tao::event::Event variants without a window id and without a payload
UnitKinds ==
    {"Suspended", "Resumed", "MainEventsCleared", "RedrawEventsCleared", "Opened"}

\* every event the engine can pump on its own before the end of a pump
\* (user events come from the proxies)
AllNativeEvents ==
    {[kind |-> "NewEvents", window_id |-> 0, inner |-> Inner(c)] : c \in StartCauses}
        \cup {[kind |-> "WindowEvent", window_id |-> n, inner |-> Inner(w)] :
                  n \in NativeIds, w \in WindowVariants}
        \cup {[kind |-> "RedrawRequested", window_id |-> n, inner |-> NoInner] : n \in NativeIds}
        \cup {[kind |-> "DeviceEvent", window_id |-> 0, inner |-> Inner(d)] : d \in DeviceVariants}
        \cup {[kind |-> k, window_id |-> 0, inner |-> NoInner] : k \in UnitKinds}
        \cup {[kind |-> "Reopen", window_id |-> 0, inner |-> Inner(b)] : b \in {"true", "false"}}

\* format!("{other:?}"): the text of a value is the name of its variant
Rendered(name) == [variant |-> "Other", value |-> name]

\* impl From<tao::event::StartCause> for TaoStartCause
convert_start_cause(c) ==
    IF c.variant \in {"Init", "Poll", "WaitCancelled", "ResumeTimeReached"}
    THEN c
    ELSE Rendered(c.variant)

\* the conversion without its catch-all arm: an unlisted variant yields nothing
convert_window_event_noCatchAll(w) ==
    IF w.variant \in {"CloseRequested", "Destroyed", "DroppedFile", "KeyboardInput",
                      "ModifiersChanged", "CursorMoved", "CursorEntered", "MouseInput",
                      "Moved", "ThemeChanged"}
    THEN w
    ELSE NoInner

\* impl From<tao::event::WindowEvent> for TaoWindowEvent
convert_window_event(w) ==
    IF w.variant \in {"CloseRequested", "Destroyed", "DroppedFile", "KeyboardInput",
                      "ModifiersChanged", "CursorMoved", "CursorEntered", "MouseInput",
                      "Moved", "ThemeChanged"}
    THEN w
    ELSE Rendered(w.variant)

\* impl From<tao::event::DeviceEvent> for TaoDeviceEvent
convert_device_event(d) ==
    IF d.variant \in {"MouseMotion", "MouseWheel", "Button", "Key"}
    THEN d
    ELSE Rendered(d.variant)

\* convert_event without the DeviceEvent arm
convert_kind_noDeviceArm(kind) ==
    IF kind \in {"NewEvents", "WindowEvent", "UserEvent", "MainEventsCleared",
                 "RedrawRequested", "RedrawEventsCleared", "Reopen", "LoopDestroyed"}
    THEN kind
    ELSE "Other"

\* convert_event: the TaoEvent variant; window ids go through the resolver
convert_kind(kind) ==
    IF kind \in {"NewEvents", "WindowEvent", "DeviceEvent", "UserEvent", "MainEventsCleared",
                 "RedrawRequested", "RedrawEventsCleared", "Reopen", "LoopDestroyed"}
    THEN kind
    ELSE "Other"

\* convert_event passing every user event on as TaoUserEvent::Timer
convert_inner_userAsTimer(event) ==
    CASE event.kind = "NewEvents" -> convert_start_cause(event.inner)
      [] event.kind = "WindowEvent" -> convert_window_event(event.inner)
      [] event.kind = "DeviceEvent" -> convert_device_event(event.inner)
      [] event.kind = "UserEvent" -> Inner("Timer")
      [] event.kind = "Reopen" -> event.inner
      [] event.kind \in {"MainEventsCleared", "RedrawRequested", "RedrawEventsCleared",
                         "LoopDestroyed"} -> NoInner
      [] OTHER -> Rendered(event.kind)

\* convert_event: the payload of the TaoEvent
convert_inner(event) ==
    CASE event.kind = "NewEvents" -> convert_start_cause(event.inner)
      [] event.kind = "WindowEvent" -> convert_window_event(event.inner)
      [] event.kind = "DeviceEvent" -> convert_device_event(event.inner)
      [] event.kind \in {"UserEvent", "Reopen"} -> event.inner
      [] event.kind \in {"MainEventsCleared", "RedrawRequested", "RedrawEventsCleared",
                         "LoopDestroyed"} -> NoInner
      [] OTHER -> Rendered(event.kind)

convert_event(event, app) ==
    IF event.kind \in WindowKinds
    THEN LET m == map_window_id(app, event.window_id)
         IN  [app |-> m.app,
              ev |-> [kind |-> convert_kind(event.kind), window_id |-> m.ret,
                      inner |-> convert_inner(event)]]
    ELSE [app |-> app,
          ev |-> [kind |-> convert_kind(event.kind), window_id |-> 0,
                  inner |-> convert_inner(event)]]

\* -------------------------------------------------------------- loop runs
Modes == {"run", "run_return"}

\* positions of the loop thread in a loop run
\*   quit     inside handler.should_quit()
\*   pump     inside the engine's pump, between two events
\*   bound    closure entered, guard set, event not yet converted
\*   handler  inside handler.handle_event()
\*   apply    handler returned, directive not yet applied
\*   unbind   directive applied, guard not yet dropped
\*   render   inside handler.render()
\*   unwind   a panic is unwinding through the closure
\*   returned / panicked / exited   the run is over
UserPcs == {"quit", "handler", "render"}

InClosure == {"bound", "handler", "apply", "unbind", "unwind"}

\* the platforms the crate is built for
Platforms ==
    {"linux", "dragonfly", "freebsd", "netbsd", "openbsd", "windows", "macos", "android", "ios"}

\* run_return_loop_with_config on every platform
run_return_supported_everywhere(p) == TRUE

\* #[cfg(not(target_os = "ios"))] of run_return_loop_with_config
run_return_supported(p) == p # "ios"

DeviceEventFilters == {"Always", "Unfocused", "Never"}

\* impl Default for RunConfig
RunConfig_default == [device_event_filter |-> "Unfocused"]

RunConfigs == [device_event_filter : DeviceEventFilters]

\* a conversion that installs the opposite filter for Always and Never
DeviceEventFilter_into_swapped(f) ==
    CASE f = "Always" -> "tao::Never"
      [] f = "Unfocused" -> "tao::Unfocused"
      [] f = "Never" -> "tao::Always"

\* impl From<DeviceEventFilter> for tao::event_loop::DeviceEventFilter
DeviceEventFilter_into(f) ==
    CASE f = "Always" -> "tao::Always"
      [] f = "Unfocused" -> "tao::Unfocused"
      [] f = "Never" -> "tao::Never"

\* the engine reports device events under the filter installed: Always
\* filters them all out, Unfocused filters them out while no window has the
\* focus (the environment decides), Never filters none out
EngineReportsDeviceEvents(installed) == installed \in {"tao::Unfocused", "tao::Never"}

\* ControlFlow::default() of the engine, the control flow a pump starts with
EngineControlFlow == "Poll"

\* user events: TaoUserEvent::Timer and TaoUserEvent::Message { value }
UserPayloads ==
    {Inner("Timer"), [variant |-> "Message", value |-> "ping"],
     [variant |-> "Message", value |-> "pong"]}

UserEvent(payload) == [kind |-> "UserEvent", window_id |-> 0, inner |-> payload]

NewRunWith(mode, config) ==
    [mode |-> mode,
     pc |-> IF mode = "run" THEN "pump" ELSE "quit",
     cf |-> EngineControlFlow,
     config |-> config,
     filter |-> DeviceEventFilter_into(config.device_event_filter),
     proxy |-> FALSE,
     inbox |-> <<>>,
     sent |-> <<>>,
     got |-> <<>>,
     taken |-> 0,
     invoked |-> 0,
     lastSet |-> "None",
     nev |-> NoEvent,
     ev |-> NoEvent,
     directive |-> "Keep",
     batches |-> IF mode = "run" THEN 1 ELSE 0,
     trace |-> <<>>,
     overwrote |-> Null,
     destroyedBatch |-> 0,
     invokedAfter |-> 0,
     quitNow |-> "no",
     quitAt |-> 0]

NewRun(mode) == NewRunWith(mode, RunConfig_default)

Top == stack[Len(stack)]

Pop(s) == SubSeq(s, 1, Len(s) - 1)

\* the loop thread is executing caller code (host code or a callback)
UserCodeOnLoopThread == IF stack = <<>> THEN TRUE ELSE runs[Top].pc \in UserPcs

UserCode(t) == IF t = LoopThread THEN UserCodeOnLoopThread ELSE TRUE

\* a handle_event invocation is in progress on thread t
InHandleEvent(t) ==
    IF t = LoopThread /\ stack # <<>> THEN runs[Top].pc = "handler" ELSE FALSE

\* no App operation has just returned
NoValue == [none |-> TRUE]

NoCall ==
    [op |-> "none", thread |-> LoopThread, app |-> 0, result |-> Ok, target |-> Null,
     native |-> 0, id |-> 0, reused |-> FALSE, arg |-> NoValue, ret |-> NoValue]

\* a thread that is not inside map_window_id
NoFrame == [pc |-> "idle", app |-> 0, id |-> 0, next |-> 0]

NoCalls == [frame |-> [t \in Threads |-> NoFrame], observed |-> {}]

\* the call of op on thread t, before its outcome is filled in
Call(op, t) ==
    [op |-> op, thread |-> t, app |-> 0, result |-> Ok, target |-> Null,
     native |-> 0, id |-> 0, reused |-> FALSE, arg |-> NoValue, ret |-> NoValue]

Init ==
    /\ slot = [t \in Threads |-> Null]
    /\ stack = <<>>
    /\ runs = <<>>
    /\ apps = <<>>
    /\ seen = <<>>
    /\ given = <<>>
    /\ live = {}
    /\ entered = 0
    /\ pumped = 0
    /\ last = NoCall
    /\ exited = FALSE
    /\ platform = "linux"
    /\ calls = NoCalls

\* run_with_config / run_return_loop_with_config up to the first callback:
\* the event loop is built, the filter installed, the App created
StartRunWithConfig(mode, config) ==
    /\ ~exited
    /\ Len(runs) < MaxRuns
    /\ UserCodeOnLoopThread
    /\ mode = "run_return" => run_return_supported(platform)
    /\ mode = "run" => entered < MaxBatches
    /\ entered' = IF mode = "run" THEN entered + 1 ELSE entered
    /\ runs' = Append(runs, NewRunWith(mode, config))
    /\ apps' = Append(apps, NewApp)
    /\ seen' = Append(seen, <<>>)
    /\ given' = Append(given, {})
    /\ stack' = Append(stack, Len(runs) + 1)
    /\ UNCHANGED <<slot, live, pumped, exited, platform, calls>>
    /\ last' = NoCall

\* run / run_return_loop: the same with RunConfig::default()
StartRun(mode) == StartRunWithConfig(mode, RunConfig_default)

\* a cooperative loop that goes on whatever should_quit() answers
loop_continues_always(b) == TRUE

\* the condition of while !handler.should_quit(), b being the poll's answer
loop_continues(b) == ~b

\* while !handler.should_quit() { event_loop.run_return(..) .. } Ok(())
\* A handler whose should_quit() has become permanently true answers true; a
\* poll that was in progress when it became so may still answer false.
ShouldQuitReturn(b) ==
    /\ ~exited
    /\ stack # <<>>
    /\ runs[Top].pc = "quit"
    /\ runs[Top].quitNow = "yes" => b
    /\ IF loop_continues(b) THEN entered < MaxBatches ELSE TRUE
    /\ entered' = IF loop_continues(b) THEN entered + 1 ELSE entered
    /\ LET poll == IF b THEN "quit_true" ELSE "quit_false"
           settled == IF runs[Top].quitNow = "racing" THEN "yes" ELSE runs[Top].quitNow
       IN  IF loop_continues(b)
           THEN /\ runs' = [runs EXCEPT ![Top].pc = "pump",
                                        ![Top].cf = EngineControlFlow,
                                        ![Top].lastSet = "None",
                                        ![Top].batches = @ + 1,
                                        ![Top].quitNow = settled,
                                        ![Top].trace = @ \o <<poll, "batch">>]
                /\ stack' = stack
                /\ last' = NoCall
           ELSE /\ runs' = [runs EXCEPT ![Top].pc = "returned",
                                        ![Top].quitNow = settled,
                                        ![Top].trace = Append(@, poll)]
                /\ stack' = Pop(stack)
                /\ last' = [Call("run_return_loop", LoopThread) EXCEPT !.app = Top]
    /\ UNCHANGED <<slot, apps, seen, given, live, pumped, exited, platform, calls>>

\* the state should_quit() reads changes so that every poll from now on
\* answers true; a poll in progress at that moment is racing with the change
QuitRequested(r) ==
    /\ ~exited
    /\ r \in 1..Len(runs)
    /\ runs[r].mode = "run_return"
    /\ runs[r].pc \notin {"returned", "panicked"}
    /\ runs[r].quitNow = "no"
    /\ runs' = [runs EXCEPT ![r].quitNow = IF runs[r].pc = "quit" THEN "racing" ELSE "yes",
                            ![r].quitAt = Len(runs[r].trace)]
    /\ UNCHANGED <<slot, stack, apps, seen, given, live, entered, pumped, exited, platform, calls>>
    /\ last' = NoCall

\* native ids the engine has given to a window built through some App
Built ==
    {n \in NativeIds : \E a \in 1..Len(apps) :
        apps[a].window_ids[n] # 0 /\ apps[a].window_ids[n] \in given[a]}

\* the engine calls the closure with one event: let _guard = TargetGuard::set(target).
\* The engine ends a pump with LoopDestroyed, once the control flow is Exit; it
\* takes user events from the queue the proxies fill, reports window events
\* for windows it has built, and device events as the installed filter allows.
Bind(e) ==
    /\ ~exited
    /\ stack # <<>>
    /\ runs[Top].pc = "pump"
    /\ IF e = LoopDestroyed
       THEN runs[Top].cf = "Exit"
       ELSE IF e.kind = "UserEvent"
       THEN IF runs[Top].inbox = <<>> THEN FALSE ELSE e = UserEvent(Head(runs[Top].inbox))
       ELSE /\ e \in AllNativeEvents
            /\ pumped < MaxEvents
            /\ e.kind \in WindowKinds => e.window_id \in Built
            /\ e.kind = "DeviceEvent" => EngineReportsDeviceEvents(runs[Top].filter)
    /\ pumped' = IF e = LoopDestroyed \/ e.kind = "UserEvent" THEN pumped ELSE pumped + 1
    /\ slot' = TargetGuard_set(slot, LoopThread, Top)
    /\ runs' = [runs EXCEPT ![Top].pc = "bound",
                            ![Top].nev = e,
                            ![Top].ev = NoEvent,
                            ![Top].taken = @ + 1,
                            ![Top].inbox = IF e.kind = "UserEvent" THEN Tail(@) ELSE @,
                            ![Top].overwrote = slot[LoopThread]]
    /\ UNCHANGED <<stack, apps, seen, given, live, entered, exited, platform, calls>>
    /\ last' = NoCall

\* convert_event(event, |id| app.map_window_id(id)); handler.handle_event(converted, ..)
Translate ==
    /\ ~exited
    /\ stack # <<>>
    /\ runs[Top].pc = "bound"
    /\ LET c == convert_event(runs[Top].nev, apps[Top])
       IN  /\ apps' = [apps EXCEPT ![Top] = c.app]
           /\ seen' = IF runs[Top].nev.kind \in WindowKinds
                      THEN [seen EXCEPT ![Top] = Observe(@, runs[Top].nev.window_id)]
                      ELSE seen
           /\ runs' = [runs EXCEPT ![Top].pc = "handler",
                                   ![Top].ev = c.ev,
                                   ![Top].invoked = @ + 1,
                                   ![Top].got = IF c.ev.kind = "UserEvent"
                                                THEN Append(@, c.ev.inner)
                                                ELSE @,
                                   ![Top].invokedAfter = runs[Top].destroyedBatch,
                                   ![Top].destroyedBatch =
                                       IF c.ev.kind = "LoopDestroyed"
                                       THEN runs[Top].batches
                                       ELSE @]
    /\ UNCHANGED <<slot, stack, given, live, entered, pumped, exited, platform, calls>>
    /\ last' = NoCall

\* handle_event returns a ControlFlow
HandlerReturn(d) ==
    /\ ~exited
    /\ stack # <<>>
    /\ runs[Top].pc = "handler"
    /\ runs' = [runs EXCEPT ![Top].pc = "apply",
                            ![Top].directive = d,
                            ![Top].lastSet = IF d = "Keep" THEN @ ELSE d]
    /\ UNCHANGED <<slot, stack, apps, seen, given, live, entered, pumped, exited, platform, calls>>
    /\ last' = NoCall

\* if let Some(cf) = ...to_tao() { *control_flow = cf; }
Apply ==
    /\ ~exited
    /\ stack # <<>>
    /\ runs[Top].pc = "apply"
    /\ runs' = [runs EXCEPT ![Top].pc = "unbind",
                            ![Top].cf = IF to_tao(runs[Top].directive) = "None"
                                        THEN @
                                        ELSE to_tao(runs[Top].directive)]
    /\ UNCHANGED <<slot, stack, apps, seen, given, live, entered, pumped, exited, platform, calls>>
    /\ last' = NoCall

\* a cooperative loop that polls should_quit right after the batch
AfterClosure_noRender(run) ==
    IF run.nev # LoopDestroyed THEN "pump"
    ELSE IF run.mode = "run" THEN "exited"
    ELSE "quit"

\* a cooperative loop that pumps again right after the batch
AfterClosure_keepPumping(run) ==
    IF run.nev # LoopDestroyed THEN "pump"
    ELSE IF run.mode = "run" THEN "exited"
    ELSE "pump"

\* where the loop thread goes when the closure has returned
AfterClosure(run) ==
    IF run.nev # LoopDestroyed THEN "pump"
    ELSE IF run.mode = "run" THEN "exited"
    ELSE "render"

\* end of the closure: _guard is dropped; after LoopDestroyed the pump ends
Unbind ==
    /\ ~exited
    /\ stack # <<>>
    /\ runs[Top].pc = "unbind"
    /\ slot' = TargetGuard_drop(slot, LoopThread)
    /\ runs' = [runs EXCEPT ![Top].pc = AfterClosure(runs[Top]),
                            ![Top].nev = NoEvent,
                            ![Top].ev = NoEvent,
                            ![Top].directive = "Keep",
                            ![Top].trace = IF AfterClosure(runs[Top]) = "render"
                                           THEN Append(@, "render")
                                           ELSE @]
    /\ exited' = (AfterClosure(runs[Top]) = "exited")
    /\ UNCHANGED <<stack, apps, seen, given, live, entered, pumped, platform, calls>>
    /\ last' = NoCall

\* handler.render() returns
RenderReturn ==
    /\ ~exited
    /\ stack # <<>>
    /\ runs[Top].pc = "render"
    /\ runs' = [runs EXCEPT ![Top].pc = "quit"]
    /\ UNCHANGED <<slot, stack, apps, seen, given, live, entered, pumped, exited, platform, calls>>
    /\ last' = NoCall

\* handle_event aborts abnormally: the panic starts to unwind
HandlerPanic ==
    /\ ~exited
    /\ stack # <<>>
    /\ runs[Top].pc = "handler"
    /\ runs' = [runs EXCEPT ![Top].pc = "unwind"]
    /\ UNCHANGED <<slot, stack, apps, seen, given, live, entered, pumped, exited, platform, calls>>
    /\ last' = NoCall

\* the panic leaves the closure (dropping _guard) and the loop run; the
\* caller of the run (host code, or the callback that started a nested run)
\* gets the failure and goes on, or panics in its turn (HandlerPanic)
Unwind ==
    /\ ~exited
    /\ stack # <<>>
    /\ runs[Top].pc = "unwind"
    /\ slot' = TargetGuard_drop(slot, LoopThread)
    /\ stack' = Pop(stack)
    /\ runs' = [runs EXCEPT ![Top].pc = "panicked",
                            ![Top].nev = NoEvent,
                            ![Top].ev = NoEvent]
    /\ UNCHANGED <<apps, seen, given, live, entered, pumped, exited, platform, calls>>
    /\ last' = NoCall

\* run_return_loop_with_config where the engine cannot return from its pump:
\* return Err(TaoError::Unsupported)
RunReturnUnsupported ==
    /\ ~exited
    /\ UserCodeOnLoopThread
    /\ ~run_return_supported(platform)
    /\ last' = [Call("run_return_loop", LoopThread) EXCEPT !.result = TaoError_Unsupported]
    /\ UNCHANGED <<slot, stack, runs, apps, seen, given, live, entered, pumped, exited, platform, calls>>

\* the configuration a WindowBuilder holds (inner: Mutex<SendableWindowBuilder>)
WindowBuilder_new == [title |-> "tao window", visible |-> TRUE]

WindowBuilders == {WindowBuilder_new, [title |-> "main", visible |-> FALSE]}

\* clone_inner moving the configuration out of the builder
clone_inner_take(b) == [ret |-> b, builder |-> WindowBuilder_new]

\* WindowBuilder::clone_inner: the clone it returns and the builder it leaves
clone_inner(b) == [ret |-> b, builder |-> b]

\* App::create_window(b) / App::create_window_default() on thread t through
\* App a; create_window_default passes WindowBuilder::new()
CreateWindowWith(op, t, a, b) ==
    /\ ~exited
    /\ a \in 1..Len(apps)
    /\ UserCode(t)
    /\ op = "create_window_default" => b = WindowBuilder_new
    /\ LET ptr == with_target_ptr(t)
           tao_builder == clone_inner(b)
           bound == [Call(op, t) EXCEPT !.target = ptr,
                                        !.arg = [builder |-> b],
                                        !.ret = [builder |-> tao_builder.builder]]
       IN  IF ptr = Null
           THEN /\ last' = [Call(op, t) EXCEPT !.result = with_target_unbound,
                                                !.arg = [builder |-> b],
                                                !.ret = [builder |-> b]]
                /\ UNCHANGED <<apps, seen, given, live>>
           ELSE \/ /\ last' = [bound EXCEPT !.result = TaoError_from_OsError]
                   /\ UNCHANGED <<apps, seen, given, live>>
                \/ \E n \in NativeIds \ live :
                        LET m == map_window_id(apps[a], n)
                        IN  /\ live' = live \cup {n}
                            /\ apps' = [apps EXCEPT ![a] = m.app]
                            /\ seen' = [seen EXCEPT ![a] = Observe(@, n)]
                            /\ given' = [given EXCEPT ![a] = @ \cup {m.ret}]
                            /\ last' = [bound EXCEPT !.app = a,
                                                     !.native = n,
                                                     !.id = m.ret,
                                                     !.reused = m.ret \in given[a]]
    /\ UNCHANGED <<slot, stack, runs, entered, pumped, exited, platform, calls>>

\* the same with a builder fresh from WindowBuilder::new()
CreateWindow(op, t, a) == CreateWindowWith(op, t, a, WindowBuilder_new)

\* App::available_monitors / App::primary_monitor on thread t through App a
MonitorQuery(op, t, a) ==
    /\ ~exited
    /\ a \in 1..Len(apps)
    /\ UserCode(t)
    /\ LET ptr == with_target_ptr(t)
       IN  IF ptr = Null
           THEN last' = [Call(op, t) EXCEPT !.result = with_target_unbound]
           ELSE last' = [Call(op, t) EXCEPT !.target = ptr]
    /\ UNCHANGED <<slot, stack, runs, apps, seen, given, live, entered, pumped, exited, platform, calls>>

\* App::create_proxy going through with_target as the context-bound operations do
create_proxy_result_bound(t) == IF with_target_ptr(t) = Null THEN with_target_unbound ELSE Ok

\* the result of App::create_proxy on thread t: Arc::new(EventLoopProxy { .. })
create_proxy_result(t) == Ok

\* App::create_proxy on thread t through App a
CreateProxy(t, a) ==
    /\ ~exited
    /\ a \in 1..Len(apps)
    /\ UserCode(t)
    /\ last' = [Call("create_proxy", t) EXCEPT !.result = create_proxy_result(t),
                                                !.app = a,
                                                !.target = with_target_ptr(t)]
    /\ runs' = [runs EXCEPT ![a].proxy = @ \/ create_proxy_result(t) = Ok]
    /\ UNCHANGED <<slot, stack, apps, seen, given, live, entered, pumped, exited, platform, calls>>

\* the event loop of run r exists: its receiver has not been dropped
LoopAlive(r) == runs[r].pc \notin {"returned", "panicked", "exited"}

\* Display of tao::event_loop::EventLoopClosed
EventLoopClosedText == "Tried to wake up a closed EventLoop"

\* self.inner.send_event(event) of the engine
native_send_event(r) == IF LoopAlive(r) THEN "Ok" ELSE "EventLoopClosed"

\* send_event that discards the result of the engine
send_event_result_discarded(native) == Ok

\* EventLoopProxy::send_event: .map_err(|e| TaoError::message(format!("{e}")))?; Ok(())
send_event_result(native) ==
    IF native = "Ok" THEN Ok ELSE TaoError_message(EventLoopClosedText)

\* EventLoopProxy::send_event on thread t, on a proxy of the loop of run r
SendEvent(t, r, payload) ==
    /\ ~exited
    /\ r \in 1..Len(runs)
    /\ runs[r].proxy
    /\ UserCode(t)
    /\ Len(runs[r].sent) < MaxEvents
    /\ last' = [Call("send_event", t) EXCEPT !.result = send_event_result(native_send_event(r)),
                                              !.app = r,
                                              !.target = with_target_ptr(t)]
    /\ runs' = IF native_send_event(r) = "Ok"
               THEN [runs EXCEPT ![r].inbox = Append(@, payload),
                                 ![r].sent = Append(@, [payload |-> payload, thread |-> t])]
               ELSE runs
    /\ UNCHANGED <<slot, stack, apps, seen, given, live, entered, pumped, exited, platform, calls>>

\* the last Arc<Window> of a window is dropped: the engine destroys the window
DropWindow(n) ==
    /\ ~exited
    /\ n \in live
    /\ live' = live \ {n}
    /\ UNCHANGED <<slot, stack, runs, apps, seen, given, entered, pumped, exited, platform, calls>>
    /\ last' = NoCall

WindowOps == {"create_window", "create_window_default"}

MonitorOps == {"available_monitors", "primary_monitor"}

\* the per-event pipeline and the cooperative outer loop
Pipeline ==
    \/ \E b \in BOOLEAN : ShouldQuitReturn(b)
    \/ Translate
    \/ \E d \in Returned : HandlerReturn(d)
    \/ Apply
    \/ Unbind
    \/ RenderReturn

\* window identity: one loop run, windows are created from the callbacks of
\* the loop thread and from the host code after the run, destroyed at any
\* time, and the engine reports window events for any native id
Next ==
    \/ \E mode \in Modes : runs = <<>> /\ StartRun(mode)
    \/ \E e \in NativeEvents \cup {LoopDestroyed} : Bind(e)
    \/ Pipeline
    \/ \E op \in WindowOps, a \in 1..MaxRuns : CreateWindow(op, LoopThread, a)
    \/ \E n \in NativeIds : DropWindow(n)

Spec == Init /\ [][Next]_vars

\* target scoping: loop runs may be started from inside a callback, handlers
\* may panic, both threads call the context-bound operations, and windows
\* stay alive
NextScope ==
    \/ \E mode \in Modes : StartRun(mode)
    \/ \E e \in {NewEvents, LoopDestroyed} : Bind(e)
    \/ Pipeline
    \/ HandlerPanic
    \/ Unwind
    \/ \E op \in WindowOps, t \in Threads, a \in 1..MaxRuns : CreateWindow(op, t, a)
    \/ \E op \in MonitorOps, t \in Threads, a \in 1..MaxRuns : MonitorQuery(op, t, a)

SpecScope == Init /\ [][NextScope]_vars

\* loop driver: loop runs one after the other in both modes, every event kind
NextLoop ==
    \/ \E mode \in Modes : stack = <<>> /\ StartRun(mode)
    \/ \E e \in NativeEvents \cup {LoopDestroyed} : Bind(e)
    \/ Pipeline
    \/ HandlerPanic
    \/ Unwind

SpecLoop == Init /\ [][NextLoop]_vars

\* event translation: one loop run under any run configuration, the engine
\* pumps every event it has, windows are built from the callbacks
NextEvents ==
    \/ \E mode \in Modes, config \in RunConfigs : runs = <<>> /\ StartRunWithConfig(mode, config)
    \/ \E e \in AllNativeEvents \cup {LoopDestroyed} : Bind(e)
    \/ Pipeline
    \/ HandlerPanic
    \/ Unwind
    \/ \E a \in 1..MaxRuns : CreateWindow("create_window", LoopThread, a)

SpecEvents == Init /\ [][NextEvents]_vars

\* control flow: loop runs one after the other, the handlers return every
\* directive
NextFlow ==
    \/ \E mode \in Modes : stack = <<>> /\ StartRun(mode)
    \/ \E e \in {NewEvents, LoopDestroyed} : Bind(e)
    \/ \E b \in BOOLEAN : ShouldQuitReturn(b)
    \/ Translate
    \/ \E d \in Directives : HandlerReturn(d)
    \/ Apply
    \/ Unbind
    \/ RenderReturn

SpecFlow == Init /\ [][NextFlow]_vars

UserEvents == {UserEvent(p) : p \in UserPayloads}

\* user events: one loop run, both threads create proxies and send user
\* events through them, during and after the run; the engine pumps the
\* user events only
NextProxy ==
    \/ \E mode \in Modes : runs = <<>> /\ StartRun(mode)
    \/ \E e \in {LoopDestroyed} \cup UserEvents : Bind(e)
    \/ Pipeline
    \/ HandlerPanic
    \/ Unwind
    \/ \E t \in Threads, a \in 1..MaxRuns : CreateProxy(t, a)
    \/ \E t \in Threads, r \in 1..MaxRuns, p \in UserPayloads : SendEvent(t, r, p)

SpecProxy == Init /\ [][NextProxy]_vars

\* the same with the scheduling the code relies on: the engine goes on
\* pumping queued user events while it is in a pump, the callbacks return,
\* and the loop thread goes on through the closure and the outer loop
FairProxy ==
    /\ SpecProxy
    /\ SF_vars(\E e \in UserEvents : Bind(e))
    /\ WF_vars(Translate)
    /\ WF_vars(\E d \in Returned : HandlerReturn(d))
    /\ WF_vars(Apply)
    /\ WF_vars(Unbind)
    /\ WF_vars(RenderReturn)
    /\ WF_vars(\E b \in BOOLEAN : ShouldQuitReturn(b))
    /\ WF_vars(Unwind)

\* the process starts on any platform the crate is built for
InitAnyPlatform ==
    /\ slot = [t \in Threads |-> Null]
    /\ stack = <<>>
    /\ runs = <<>>
    /\ apps = <<>>
    /\ seen = <<>>
    /\ given = <<>>
    /\ live = {}
    /\ entered = 0
    /\ pumped = 0
    /\ last = NoCall
    /\ exited = FALSE
    /\ platform \in Platforms
    /\ calls = NoCalls

\* platforms: the host code starts loop runs in both modes one after the
\* other on every platform
NextPlatform ==
    \/ \E mode \in Modes : stack = <<>> /\ StartRun(mode)
    \/ RunReturnUnsupported
    \/ \E e \in {NewEvents, LoopDestroyed} : Bind(e)
    \/ Pipeline

SpecPlatform == InitAnyPlatform /\ [][NextPlatform]_vars

\* successive loop runs: the host code calls run_return_loop again after it
\* has returned, keeps the App of an earlier run, and creates windows on the
\* loop thread
NextRuns ==
    \/ stack = <<>> /\ StartRun("run_return")
    \/ \E e \in {NewEvents, LoopDestroyed} : Bind(e)
    \/ Pipeline
    \/ \E op \in WindowOps, a \in 1..MaxRuns, b \in WindowBuilders :
           CreateWindowWith(op, LoopThread, a, b)

SpecRuns == Init /\ [][NextRuns]_vars

\* cooperative loops and their callbacks: run_return_loop is called by the
\* host code and from inside callbacks, and should_quit, handle_event and
\* render call the context-bound operations through any App they hold
NextRender ==
    \/ StartRun("run_return")
    \/ \E e \in {NewEvents, LoopDestroyed} : Bind(e)
    \/ Pipeline
    \/ \E op \in WindowOps, a \in 1..MaxRuns : CreateWindow(op, LoopThread, a)
    \/ \E op \in MonitorOps, a \in 1..MaxRuns : MonitorQuery(op, LoopThread, a)

SpecRender == Init /\ [][NextRender]_vars

\* one cooperative loop whose handler decides at some moment to quit for good
NextQuit ==
    \/ runs = <<>> /\ StartRun("run_return")
    \/ \E e \in {NewEvents, LoopDestroyed} : Bind(e)
    \/ Pipeline
    \/ \E r \in 1..MaxRuns : QuitRequested(r)

\* should_quit() and render() return
FairQuit ==
    /\ Init
    /\ [][NextQuit]_vars
    /\ WF_vars(\E b \in BOOLEAN : ShouldQuitReturn(b))
    /\ WF_vars(RenderReturn)

\* ------------------------------------------- map_window_id, step by step
\* a Mutex that lets every thread in
mutex_free_always(holder) == TRUE

\* Mutex::lock can return: no thread owns the mutex
mutex_free(holder) == holder = "none"

\* thread t enters app.map_window_id(id): let mut map = self.window_ids.lock().unwrap()
MapLock(t, a, id) ==
    /\ ~exited
    /\ a \in 1..Len(apps)
    /\ calls.frame[t].pc = "idle"
    /\ mutex_free(apps[a].lock)
    /\ apps' = [apps EXCEPT ![a].lock = t]
    /\ calls' = [calls EXCEPT !.frame[t] = [pc |-> "locked", app |-> a, id |-> id, next |-> 0]]
    /\ last' = NoCall
    /\ UNCHANGED <<slot, stack, runs, seen, given, live, entered, pumped, exited, platform>>

\* if let Some(existing) = map.get(&id) { return *existing; }  The guard is
\* dropped at the return.
MapLookup(t) ==
    /\ ~exited
    /\ calls.frame[t].pc = "locked"
    /\ LET f == calls.frame[t]
           existing == apps[f.app].window_ids[f.id]
       IN  IF existing # 0
           THEN /\ apps' = [apps EXCEPT ![f.app].lock = "none"]
                /\ calls' = [frame |-> [calls.frame EXCEPT ![t] = NoFrame],
                             observed |-> calls.observed \cup {<<t, f.app, f.id, existing>>}]
           ELSE /\ apps' = apps
                /\ calls' = [calls EXCEPT !.frame[t].pc = "miss"]
    /\ last' = NoCall
    /\ UNCHANGED <<slot, stack, runs, seen, given, live, entered, pumped, exited, platform>>

\* let next = self.next_window_id.fetch_add(1, Ordering::Relaxed)
MapFetchAdd(t) ==
    /\ ~exited
    /\ calls.frame[t].pc = "miss"
    /\ LET f == calls.frame[t]
       IN  /\ apps' = [apps EXCEPT ![f.app].next_window_id = @ + 1]
           /\ calls' = [calls EXCEPT !.frame[t].pc = "fetched",
                                     !.frame[t].next = apps[f.app].next_window_id]
    /\ last' = NoCall
    /\ UNCHANGED <<slot, stack, runs, seen, given, live, entered, pumped, exited, platform>>

\* map.insert(id, next); next  The guard is dropped at the return.
MapInsert(t) ==
    /\ ~exited
    /\ calls.frame[t].pc = "fetched"
    /\ LET f == calls.frame[t]
       IN  /\ apps' = [apps EXCEPT ![f.app].window_ids[f.id] = f.next,
                                   ![f.app].lock = "none"]
           /\ seen' = [seen EXCEPT ![f.app] = Observe(@, f.id)]
           /\ calls' = [frame |-> [calls.frame EXCEPT ![t] = NoFrame],
                        observed |-> calls.observed \cup {<<t, f.app, f.id, f.next>>}]
    /\ last' = NoCall
    /\ UNCHANGED <<slot, stack, runs, given, live, entered, pumped, exited, platform>>

\* the registry under concurrent use: the App of a loop run is shared by
\* threads that call map_window_id on it at any time
NextRegistry ==
    \/ runs = <<>> /\ StartRun("run_return")
    \/ \E t \in Threads, a \in 1..MaxRuns, id \in NativeIds : MapLock(t, a, id)
    \/ \E t \in Threads : MapLookup(t)
    \/ \E t \in Threads : MapFetchAdd(t)
    \/ \E t \in Threads : MapInsert(t)

SpecRegistry == Init /\ [][NextRegistry]_vars

\* ============================================ platform handles and graphics

\* the target_os values of the cfg(any(target_os = "linux", "dragonfly", ..))
\* blocks
UnixFamily == {"linux", "dragonfly", "freebsd", "netbsd", "openbsd"}

\* the tao windows user code can hold on platform p, each on the windowing
\* system it lives on
WindowsOn(p) ==
    {[display |-> d] :
        d \in CASE p \in UnixFamily -> {"x11", "wayland"}
                [] p = "windows" -> {"win32"}
                [] p = "macos" -> {"appkit"}
                [] p = "ios" -> {"uikit"}
                [] p = "android" -> {"ndk"}}

Some(object) == [some |-> TRUE, object |-> object]

None == [some |-> FALSE, object |-> ""]

\* the engine's per-window accessors (WindowExtMacOS, WindowExtIOS,
\* WindowExtWindows, WindowExtUnix), by name. The Unix ones are Options and
\* answer None for a window of the other display server.
tao_window(name, w) ==
    CASE name = "ns_view" -> Some("NSView")
      [] name = "ns_window" -> Some("NSWindow")
      [] name = "ui_view" -> Some("UIView")
      [] name = "ui_window" -> Some("UIWindow")
      [] name = "hwnd" -> Some("HWND")
      [] name = "hinstance" -> Some("HINSTANCE")
      [] name = "xlib_window" -> IF w.display = "x11" THEN Some("X11 Window") ELSE None
      [] name = "xlib_display" -> IF w.display = "x11" THEN Some("X11 Display") ELSE None
      [] name = "xlib_screen_id" -> IF w.display = "x11" THEN Some("X11 Screen") ELSE None
      [] name = "wayland_surface" -> IF w.display = "wayland" THEN Some("wl_surface") ELSE None
      [] name = "wayland_display" -> IF w.display = "wayland" THEN Some("wl_display") ELSE None

\* Ok(x as u64): the pointer or id is widened, the object it names is the same
OkHandle(object) == [result |-> Ok, ret |-> [handle |-> object]]

ErrUnsupported == [result |-> TaoError_Unsupported, ret |-> NoValue]

HandleAccessors ==
    {"ns_view_handle", "ns_window_handle", "hwnd_handle", "hinstance_handle",
     "xlib_window_handle", "xlib_display_handle", "xlib_screen_id",
     "wayland_surface_handle", "wayland_display_handle"}

\* the accessors compiled with their engine call on every platform
raw_handle_everywhere(name, p, w) ==
    LET unix(ext) ==
            IF tao_window(ext, w).some THEN OkHandle(tao_window(ext, w).object) ELSE ErrUnsupported
        on(os, ext) == OkHandle(tao_window(ext, w).object)
    IN  CASE name = "ns_view_handle" -> on("macos", "ns_view")
          [] name = "ns_window_handle" -> on("macos", "ns_window")
          [] name = "hwnd_handle" -> on("windows", "hwnd")
          [] name = "hinstance_handle" -> on("windows", "hinstance")
          [] name = "xlib_window_handle" -> unix("xlib_window")
          [] name = "xlib_display_handle" -> unix("xlib_display")
          [] name = "xlib_screen_id" -> unix("xlib_screen_id")
          [] name = "wayland_surface_handle" -> unix("wayland_surface")
          [] name = "wayland_display_handle" -> unix("wayland_display")

\* the raw-handle accessors of impl Window, by name, on a build for platform
\* p: the macOS and Windows ones return Ok(window.x() as u64) under their cfg
\* and Err(Unsupported) otherwise; the X11 and Wayland ones, under the cfg of
\* the Unix family, if let Some(x) = window.x() { return Ok(x as u64) } and
\* Err(Unsupported) in every other case
raw_handle(name, p, w) ==
    LET unix(ext) ==
            IF p \in UnixFamily /\ tao_window(ext, w).some
            THEN OkHandle(tao_window(ext, w).object)
            ELSE ErrUnsupported
        on(os, ext) == IF p = os THEN OkHandle(tao_window(ext, w).object) ELSE ErrUnsupported
    IN  CASE name = "ns_view_handle" -> on("macos", "ns_view")
          [] name = "ns_window_handle" -> on("macos", "ns_window")
          [] name = "hwnd_handle" -> on("windows", "hwnd")
          [] name = "hinstance_handle" -> on("windows", "hinstance")
          [] name = "xlib_window_handle" -> unix("xlib_window")
          [] name = "xlib_display_handle" -> unix("xlib_display")
          [] name = "xlib_screen_id" -> unix("xlib_screen_id")
          [] name = "wayland_surface_handle" -> unix("wayland_surface")
          [] name = "wayland_display_handle" -> unix("wayland_display")

\* user code on thread t calls a raw-handle accessor of a Window it holds
HandleAccessor(name, t, w) ==
    /\ ~exited
    /\ w \in WindowsOn(platform)
    /\ LET r == raw_handle(name, platform, w)
       IN  last' = [Call(name, t) EXCEPT !.result = r.result, !.arg = w, !.ret = r.ret]
    /\ UNCHANGED <<slot, stack, runs, apps, seen, given, live, entered, pumped, exited, platform, calls>>

GraphicsBackends == {"Metal", "Vulkan", "DirectX12", "OpenGL"}

\* default_for_platform answering Metal on every platform
default_for_platform_metal(p) == "Metal"

\* GraphicsBackend::default_for_platform on a build for platform p
default_for_platform(p) ==
    CASE p = "macos" -> "Metal"
      [] p = "ios" -> "Metal"
      [] p = "windows" -> "DirectX12"
      [] p \in UnixFamily -> "Vulkan"
      [] p = "android" -> "Vulkan"
      [] OTHER -> "OpenGL"

\* GraphicsBackend::is_supported on a build for platform p
is_supported(b, p) ==
    CASE b = "Metal" -> p \in {"macos", "ios"}
      [] b = "Vulkan" -> p \in {"linux", "windows", "android"} \cup UnixFamily
      [] b = "DirectX12" -> p = "windows"
      [] b = "OpenGL" -> TRUE

\* the Option fields of struct RawWindowHandle
HandleFields ==
    {"ns_view", "ns_window", "ui_view", "ui_window", "hwnd", "hinstance", "xlib_window",
     "xlib_display", "xlib_visual_id", "xlib_screen", "wayland_surface", "wayland_display",
     "android_native_window"}

\* a RawWindowHandle with backend b whose Option fields are given by the
\* function opt from field name to Option
RawWindowHandle(b, opt) ==
    [backend |-> b,
     ns_view |-> opt["ns_view"], ns_window |-> opt["ns_window"],
     ui_view |-> opt["ui_view"], ui_window |-> opt["ui_window"],
     hwnd |-> opt["hwnd"], hinstance |-> opt["hinstance"],
     xlib_window |-> opt["xlib_window"], xlib_display |-> opt["xlib_display"],
     xlib_visual_id |-> opt["xlib_visual_id"], xlib_screen |-> opt["xlib_screen"],
     wayland_surface |-> opt["wayland_surface"], wayland_display |-> opt["wayland_display"],
     android_native_window |-> opt["android_native_window"]]

\* is_valid looking at every field whatever the backend
is_valid_anyField(h) == \E f \in HandleFields : h[f].some

\* RawWindowHandle::is_valid
is_valid(h) ==
    CASE h.backend = "Metal" -> h.ns_view.some \/ h.ui_view.some
      [] h.backend = "DirectX12" -> h.hwnd.some
      [] h.backend = "Vulkan" ->
           h.hwnd.some \/ h.xlib_window.some \/ h.wayland_surface.some
               \/ h.android_native_window.some
      [] h.backend = "OpenGL" ->
           h.ns_view.some \/ h.hwnd.some \/ h.xlib_window.some \/ h.wayland_surface.some

\* WindowGraphicsExt::raw_window_handle_for_backend: the handle starts with
\* every Option None, the cfg block of the build's platform fills its fields
\* in, and a handle that is not valid is not returned
raw_window_handle_for_backend(p, w, b) ==
    LET handle ==
            RawWindowHandle(b,
                [f \in HandleFields |->
                    CASE p = "macos" /\ f \in {"ns_view", "ns_window"} -> tao_window(f, w)
                      [] p = "ios" /\ f \in {"ui_view", "ui_window"} -> tao_window(f, w)
                      [] p = "windows" /\ f \in {"hwnd", "hinstance"} -> tao_window(f, w)
                      [] p \in UnixFamily /\ f \in {"xlib_window", "xlib_display",
                                                    "wayland_surface", "wayland_display"} ->
                           tao_window(f, w)
                      [] p \in UnixFamily /\ f = "xlib_screen" -> tao_window("xlib_screen_id", w)
                      [] OTHER -> None])
    IN  IF ~is_valid(handle)
        THEN ErrUnsupported
        ELSE [result |-> Ok, ret |-> handle]

\* user code calls GraphicsBackend::default_for_platform()
DefaultForPlatform(t) ==
    /\ ~exited
    /\ last' = [Call("default_for_platform", t) EXCEPT
                   !.ret = [backend |-> default_for_platform(platform)]]
    /\ UNCHANGED <<slot, stack, runs, apps, seen, given, live, entered, pumped, exited, platform, calls>>

\* user code calls b.is_supported()
IsSupported(t, b) ==
    /\ ~exited
    /\ last' = [Call("is_supported", t) EXCEPT
                   !.arg = [backend |-> b], !.ret = [bool |-> is_supported(b, platform)]]
    /\ UNCHANGED <<slot, stack, runs, apps, seen, given, live, entered, pumped, exited, platform, calls>>

\* user code calls RawWindowHandle::empty() (backend default_for_platform(),
\* every Option None), sets the backend tag to b and calls is_valid()
EmptyHandle(t, b) ==
    /\ ~exited
    /\ LET empty == RawWindowHandle(default_for_platform(platform),
                                    [f \in HandleFields |-> None])
           h == [empty EXCEPT !.backend = b]
       IN  last' = [Call("empty", t) EXCEPT !.arg = h, !.ret = [bool |-> is_valid(h)]]
    /\ UNCHANGED <<slot, stack, runs, apps, seen, given, live, entered, pumped, exited, platform, calls>>

\* user code calls is_valid() on a handle it has built: a uniffi Record has
\* public fields, so any backend tag goes with any populated fields (here up
\* to MaxPopulated of them)
IsValid(t, b, S) ==
    /\ ~exited
    /\ S \subseteq HandleFields
    /\ Cardinality(S) <= MaxPopulated
    /\ LET h == RawWindowHandle(b, [f \in HandleFields |-> IF f \in S THEN Some(f) ELSE None])
       IN  last' = [Call("is_valid", t) EXCEPT !.arg = h, !.ret = [bool |-> is_valid(h)]]
    /\ UNCHANGED <<slot, stack, runs, apps, seen, given, live, entered, pumped, exited, platform, calls>>

\* user code calls window.raw_window_handle_for_backend(b)
RawWindowHandleForBackend(t, w, b) ==
    /\ ~exited
    /\ w \in WindowsOn(platform)
    /\ LET r == raw_window_handle_for_backend(platform, w, b)
       IN  last' = [Call("raw_window_handle_for_backend", t) EXCEPT
                      !.result = r.result, !.arg = [display |-> w.display, backend |-> b],
                      !.ret = r.ret]
    /\ UNCHANGED <<slot, stack, runs, apps, seen, given, live, entered, pumped, exited, platform, calls>>

\* user code calls window.raw_window_handle():
\* self.raw_window_handle_for_backend(GraphicsBackend::default_for_platform())
RawWindowHandleDefault(t, w) ==
    /\ ~exited
    /\ w \in WindowsOn(platform)
    /\ LET r == raw_window_handle_for_backend(platform, w, default_for_platform(platform))
       IN  last' = [Call("raw_window_handle", t) EXCEPT
                      !.result = r.result, !.arg = w, !.ret = r.ret]
    /\ UNCHANGED <<slot, stack, runs, apps, seen, given, live, entered, pumped, exited, platform, calls>>

\* ----------------------------------------------------- error conversions
\* native errors by type, each with the text its Display prints; the last two
\* are errors of image::open
NativeErrors ==
    {[ty |-> "std::io::Error", text |-> "File not found"],
     [ty |-> "std::io::Error", text |-> "permission denied"],
     [ty |-> "tao::error::ExternalError", text |-> "os error at line 1: grab failed"],
     [ty |-> "tao::error::ExternalError",
      text |-> "the requested operation is not supported by Tao"],
     [ty |-> "tao::error::NotSupportedError",
      text |-> "the requested operation is not supported by Tao"],
     [ty |-> "tao::window::BadIcon", text |-> "byte count not divisible by 4"],
     [ty |-> "tao::window::BadIcon", text |-> "dimensions vs pixel count mismatch"],
     [ty |-> "tao::error::OsError", text |-> OsErrorText],
     [ty |-> "image::ImageError", text |-> "No such file or directory (os error 2)"],
     [ty |-> "image::ImageError", text |-> "Format error decoding Png"]}

\* value.to_string(): the text Display prints
to_string(e) == e.text

\* the From impls with a prefix in front of the native text
TaoError_from_prefixed(e) ==
    IF e.ty = "tao::error::NotSupportedError"
    THEN TaoError_Unsupported
    ELSE TaoError_message("tao error: " \o to_string(e))

\* impl From<std::io::Error | ExternalError | NotSupportedError | BadIcon |
\* OsError> for TaoError
TaoError_from(e) ==
    IF e.ty = "tao::error::NotSupportedError"
    THEN TaoError_Unsupported
    ELSE TaoError_message(to_string(e))

\* load_rgba: map_err(|e| TaoError::message(format!("Failed to open icon path: {e}")))
load_rgba_err(e) == TaoError_message("Failed to open icon path: " \o to_string(e))

\* impl Display for TaoError (thiserror: #[error("{details}")], #[error("Unsupported ..")])
TaoError_display(err) ==
    IF err.kind = "Message" THEN err.details ELSE "Unsupported on this platform"

\* an exported function fails with native error e and returns the TaoError
\* made of it: Icon::from_file through load_rgba for an error of image::open,
\* every other function through the From impls (? and map_err(TaoError::from))
ConvertError(t, e) ==
    /\ ~exited
    /\ LET image == e.ty = "image::ImageError"
           r == IF image THEN load_rgba_err(e) ELSE TaoError_from(e)
       IN  last' = [Call(IF image THEN "Icon::from_file" ELSE "TaoError::from", t) EXCEPT
                      !.result = r, !.arg = e, !.ret = [text |-> TaoError_display(r)]]
    /\ UNCHANGED <<slot, stack, runs, apps, seen, given, live, entered, pumped, exited, platform, calls>>

\* ----------------------------------------------------- input conversions
Variant(ty, variant, value) == [ty |-> ty, variant |-> variant, value |-> value]

\* the values of the binding's input enums ElementState, Theme and
\* MouseButton (Other carries a u16)
InputValues ==
    {Variant("ElementState", v, 0) : v \in {"Pressed", "Released"}}
        \cup {Variant("Theme", v, 0) : v \in {"Light", "Dark"}}
        \cup {Variant("MouseButton", v, 0) : v \in {"Left", "Right", "Middle"}}
        \cup {Variant("MouseButton", "Other", n) : n \in {0, 1, 65535}}

\* v.into() for a value of the binding's input enums: impl From<ElementState>
\* for TaoElementState, From<Theme> for tao::window::Theme, From<MouseButton>
\* for tao::event::MouseButton
into_tao(v) ==
    CASE v.ty = "ElementState" /\ v.variant = "Pressed" ->
           Variant("tao::ElementState", "Pressed", 0)
      [] v.ty = "ElementState" /\ v.variant = "Released" ->
           Variant("tao::ElementState", "Released", 0)
      [] v.ty = "Theme" /\ v.variant = "Light" -> Variant("tao::Theme", "Light", 0)
      [] v.ty = "Theme" /\ v.variant = "Dark" -> Variant("tao::Theme", "Dark", 0)
      [] v.ty = "MouseButton" /\ v.variant = "Left" -> Variant("tao::MouseButton", "Left", 0)
      [] v.ty = "MouseButton" /\ v.variant = "Right" -> Variant("tao::MouseButton", "Right", 0)
      [] v.ty = "MouseButton" /\ v.variant = "Middle" ->
           Variant("tao::MouseButton", "Middle", 0)
      [] v.ty = "MouseButton" /\ v.variant = "Other" ->
           Variant("tao::MouseButton", "Other", v.value)

\* from_tao with MouseButton::Other(v) falling into the catch-all arm
from_tao_otherAsZero(n) ==
    CASE n.ty = "tao::ElementState" /\ n.variant = "Pressed" ->
           Variant("ElementState", "Pressed", 0)
      [] n.ty = "tao::ElementState" /\ n.variant # "Pressed" ->
           Variant("ElementState", "Released", 0)
      [] n.ty = "tao::Theme" /\ n.variant = "Dark" -> Variant("Theme", "Dark", 0)
      [] n.ty = "tao::Theme" /\ n.variant # "Dark" -> Variant("Theme", "Light", 0)
      [] n.ty = "tao::MouseButton" /\ n.variant \in {"Left", "Right", "Middle"} ->
           Variant("MouseButton", n.variant, 0)
      [] n.ty = "tao::MouseButton" /\ n.variant \notin {"Left", "Right", "Middle"} ->
           Variant("MouseButton", "Other", 0)

\* n.into() for a value of the engine's enums: impl From<TaoElementState> for
\* ElementState, From<tao::window::Theme> for Theme, From<tao::event::MouseButton>
\* for MouseButton; each match ends in a catch-all arm
from_tao(n) ==
    CASE n.ty = "tao::ElementState" /\ n.variant = "Pressed" ->
           Variant("ElementState", "Pressed", 0)
      [] n.ty = "tao::ElementState" /\ n.variant = "Released" ->
           Variant("ElementState", "Released", 0)
      [] n.ty = "tao::ElementState" /\ n.variant \notin {"Pressed", "Released"} ->
           Variant("ElementState", "Released", 0)
      [] n.ty = "tao::Theme" /\ n.variant = "Light" -> Variant("Theme", "Light", 0)
      [] n.ty = "tao::Theme" /\ n.variant = "Dark" -> Variant("Theme", "Dark", 0)
      [] n.ty = "tao::Theme" /\ n.variant \notin {"Light", "Dark"} ->
           Variant("Theme", "Light", 0)
      [] n.ty = "tao::MouseButton" /\ n.variant = "Left" -> Variant("MouseButton", "Left", 0)
      [] n.ty = "tao::MouseButton" /\ n.variant = "Right" -> Variant("MouseButton", "Right", 0)
      [] n.ty = "tao::MouseButton" /\ n.variant = "Middle" ->
           Variant("MouseButton", "Middle", 0)
      [] n.ty = "tao::MouseButton" /\ n.variant = "Other" ->
           Variant("MouseButton", "Other", n.value)
      [] n.ty = "tao::MouseButton" /\ n.variant \notin {"Left", "Right", "Middle", "Other"} ->
           Variant("MouseButton", "Other", 0)

\* a value of the binding is converted into the engine's form and back
RoundTrip(t, v) ==
    /\ ~exited
    /\ LET n == into_tao(v)
       IN  last' = [Call("into;from", t) EXCEPT
                      !.arg = v, !.ret = [native |-> n, back |-> from_tao(n)]]
    /\ UNCHANGED <<slot, stack, runs, apps, seen, given, live, entered, pumped, exited, platform, calls>>

\* a DeviceEventFilter of the binding is converted into the engine's
FilterInto(t, f) ==
    /\ ~exited
    /\ last' = [Call("DeviceEventFilter::into", t) EXCEPT
                   !.arg = Variant("DeviceEventFilter", f, 0),
                   !.ret = [filter |-> DeviceEventFilter_into(f)]]
    /\ UNCHANGED <<slot, stack, runs, apps, seen, given, live, entered, pumped, exited, platform, calls>>

\* the platform API: user code calls the raw-handle accessors, the graphics
\* backend functions and the conversions, on a build for any platform; these
\* functions read no per-thread state, so one calling thread stands for all
NextApi ==
    \/ \E name \in HandleAccessors, w \in WindowsOn(platform) :
           HandleAccessor(name, LoopThread, w)
    \/ DefaultForPlatform(LoopThread)
    \/ \E b \in GraphicsBackends : IsSupported(LoopThread, b)
    \/ \E b \in GraphicsBackends : EmptyHandle(LoopThread, b)
    \/ \E b \in GraphicsBackends, S \in SUBSET HandleFields : IsValid(LoopThread, b, S)
    \/ \E w \in WindowsOn(platform), b \in GraphicsBackends :
           RawWindowHandleForBackend(LoopThread, w, b)
    \/ \E w \in WindowsOn(platform) : RawWindowHandleDefault(LoopThread, w)
    \/ \E e \in NativeErrors : ConvertError(LoopThread, e)
    \/ \E v \in InputValues : RoundTrip(LoopThread, v)
    \/ \E f \in DeviceEventFilters : FilterInto(LoopThread, f)

SpecApi == InitAnyPlatform /\ [][NextApi]_vars

\* ================================================================= claims

ContextOps == WindowOps \cup MonitorOps

Assigned(app) == {app.window_ids[n] : n \in NativeIds} \ {0}

\* a handle_event invocation (the closure around it) is in progress on thread t
InvocationInProgress(t) ==
    t = LoopThread /\ \E k \in 1..Len(stack) : runs[stack[k]].pc \in InClosure

Count(tr, x) == Cardinality({i \in 1..Len(tr) : tr[i] = x})

\* C1: the registry of an App is append-only, stable and injective: a step
\* never removes or changes an entry, a resolve of a native id that already
\* has a stable id returns that id (to convert_event as well as to
\* create_window), and two native ids never hold the same stable id.
C1_RegistryStableInjective ==
    [][/\ \A a \in 1..Len(apps) : \A n \in NativeIds :
            apps[a].window_ids[n] # 0 => apps'[a].window_ids[n] = apps[a].window_ids[n]
       /\ \A a \in 1..Len(apps') : \A n, m \in NativeIds :
            (n # m /\ apps'[a].window_ids[n] # 0) =>
                apps'[a].window_ids[n] # apps'[a].window_ids[m]
       /\ \A r \in 1..Len(runs) :
            (/\ runs[r].pc = "bound"
             /\ runs'[r].pc = "handler"
             /\ runs[r].nev.kind \in WindowKinds
             /\ apps[r].window_ids[runs[r].nev.window_id] # 0) =>
                runs'[r].ev.window_id = apps[r].window_ids[runs[r].nev.window_id]
       /\ (/\ last'.op \in WindowOps
           /\ last'.native # 0
           /\ apps[last'.app].window_ids[last'.native] # 0) =>
                last'.id = apps[last'.app].window_ids[last'.native]
       /\ \A r \in 1..Len(runs') :
            (runs'[r].pc = "handler" /\ runs'[r].nev.kind \in WindowKinds) =>
                runs'[r].ev.window_id = apps'[r].window_ids[runs'[r].nev.window_id]
      ]_vars

\* create_window has resolved a native id whose stable id an earlier window
\* had received, in a registry that holds a second native id
C1_Witness ==
    /\ last.op \in WindowOps
    /\ last.reused
    /\ last.id = 1
    /\ apps[last.app].next_window_id = 3

\* C2: stable ids are allocated gaplessly in first-observation order
\* starting at 1: the k-th distinct native id seen holds k, the assigned ids
\* are exactly 1..n and the counter stands at n + 1, so resolving a known id
\* did not advance it.
C2_GaplessFirstObservationOrder ==
    \A a \in 1..Len(apps) :
        /\ apps[a].next_window_id = Len(seen[a]) + 1
        /\ Assigned(apps[a]) = 1..Len(seen[a])
        /\ \A k \in 1..Len(seen[a]) : apps[a].window_ids[seen[a][k]] = k
        /\ \A n \in NativeIds :
            apps[a].window_ids[n] # 0 => \E k \in 1..Len(seen[a]) : seen[a][k] = n

\* two native ids hold 1 and 2, and the first has been resolved by
\* create_window as well as by the event now being handled
C2_Witness ==
    \E r \in 1..Len(runs) :
        /\ given[r] = {1, 2}
        /\ runs[r].pc = "handler"
        /\ runs[r].nev.kind \in WindowKinds
        /\ runs[r].ev.window_id = 1
        /\ apps[r].next_window_id = 3

\* C3: create_window never gives a new window a stable id that an earlier
\* window of the same App received, also when the engine hands out the
\* native id of a destroyed window again.
C3_StableIdNeverReused ==
    (last.op \in WindowOps /\ last.result = Ok) => ~last.reused

\* C4: the slot of a thread is null whenever no handle_event invocation is in
\* progress on that thread, also after an invocation that ended by unwinding;
\* when the closure has just been entered the slot holds the target of its
\* loop run.
C4_SlotNullOutsideInvocation ==
    /\ \A t \in Threads : ~InvocationInProgress(t) => slot[t] = Null
    /\ stack # <<>> => (runs[Top].pc = "bound" => slot[LoopThread] = Top)

\* a handler invocation has ended by unwinding and no invocation is active
C4_Witness ==
    /\ stack = <<>>
    /\ \E r \in 1..Len(runs) : runs[r].pc = "panicked"

C6_NoSpuriousNotBound ==
    (last.op \in ContextOps /\ InHandleEvent(last.thread)) =>
        (last.target = Top /\ last.result # TaoError_message(NoActiveTarget))

\* C7: while the loop thread holds a binding, a context-bound operation
\* called on another thread reads that thread's own empty slot: it fails with
\* the no-active-target error and uses no target; the slot of a thread other
\* than the loop thread is never set.
C7_ThreadConfined ==
    /\ \A t \in Threads \ {LoopThread} : slot[t] = Null
    /\ (last.op \in ContextOps /\ last.thread # LoopThread /\ slot[LoopThread] # Null) =>
           (last.result = TaoError_message(NoActiveTarget) /\ last.target = Null)

\* the background thread calls while the loop thread is inside handle_event
C7_Witness ==
    /\ last.op = "available_monitors"
    /\ last.thread = "bg"
    /\ InHandleEvent(LoopThread)
    /\ slot[LoopThread] = Top
    /\ last.result.kind = "Message"

\* C8: TargetGuard::set is never executed on a thread whose slot is already
\* non-null: no loop run has overwritten a binding.
C8_SetOnlyOnNullSlot ==
    \A r \in 1..Len(runs) : runs[r].overwrote = Null

\* C9: the call trace of a cooperative run is a prefix of
\* (should_quit=false, batch, render)* should_quit=true; should_quit=true is
\* its last call and is followed by the return; at every poll and at the
\* return render() has been called once per batch entered, and inside a
\* batch (also one abandoned by a panic) once per batch entered before it.
C9_QuitBatchRenderTrace ==
    \A r \in 1..Len(runs) :
        LET tr == runs[r].trace
        IN  /\ \A i \in 1..Len(tr) :
                /\ i % 3 = 1 => tr[i] \in {"quit_false", "quit_true"}
                /\ i % 3 = 2 => tr[i] = "batch"
                /\ i % 3 = 0 => tr[i] = "render"
                /\ tr[i] = "quit_true" => i = Len(tr)
            /\ runs[r].mode = "run" => tr = <<>>
            /\ runs[r].mode = "run_return" =>
                /\ Count(tr, "batch") = runs[r].batches
                /\ Count(tr, "quit_false") = Count(tr, "batch")
                /\ runs[r].pc \in {"quit", "returned"} =>
                       Count(tr, "render") = Count(tr, "batch")
                /\ runs[r].pc \in {"render"} =>
                       Count(tr, "render") = Count(tr, "batch")
                /\ runs[r].pc \in {"pump", "panicked"} \cup InClosure =>
                       Count(tr, "render") + 1 = Count(tr, "batch")
                /\ (runs[r].pc = "returned") <=>
                       (tr # <<>> /\ tr[Len(tr)] = "quit_true")

\* a cooperative run has returned after one batch and one render
C9_Witness ==
    \E r \in 1..Len(runs) :
        /\ runs[r].pc = "returned"
        /\ runs[r].trace = <<"quit_false", "batch", "render", "quit_true">>

\* C10 as stated: once the handler of a loop run has been given
\* LoopDestroyed, handle_event is not invoked again for that run.
C10_DestroyedTerminal ==
    \A r \in 1..Len(runs) : runs[r].invokedAfter = 0

\* C10 amended: LoopDestroyed ends the pump, not the cooperative run: in
\* run-forever mode handle_event is never invoked after it; in cooperative
\* mode it is invoked again only in a later batch, entered after render()
\* and a should_quit() poll that returned false.
C10_DestroyedEndsPump ==
    \A r \in 1..Len(runs) :
        /\ runs[r].mode = "run" => runs[r].invokedAfter = 0
        /\ (runs[r].pc \in {"handler", "apply", "unbind"} /\ runs[r].invokedAfter # 0) =>
            /\ runs[r].mode = "run_return"
            /\ runs[r].batches > runs[r].invokedAfter
            /\ Len(runs[r].trace) >= 3
            /\ SubSeq(runs[r].trace, Len(runs[r].trace) - 2, Len(runs[r].trace)) =
                   <<"render", "quit_false", "batch">>

\* the handler of a cooperative run is invoked in the batch after the one
\* that ended with LoopDestroyed
C10_Witness ==
    \E r \in 1..Len(runs) :
        /\ runs[r].pc = "handler"
        /\ runs[r].invokedAfter = 1
        /\ runs[r].batches = 2

\* ---------------------------------------------------------------------
\* the TaoEvent variants that have a native variant of the same name
SameNameKinds ==
    {"NewEvents", "WindowEvent", "DeviceEvent", "UserEvent", "MainEventsCleared",
     "RedrawRequested", "RedrawEventsCleared", "Reopen", "LoopDestroyed"}

\* the handler of run r holds the translation of the native event in flight
HoldsTranslation(r) ==
    LET n == runs[r].nev
        e == runs[r].ev
    IN  /\ n # NoEvent
        /\ e.kind = (IF n.kind \in SameNameKinds THEN n.kind ELSE "Other")
        /\ e.window_id = (IF n.kind \in WindowKinds THEN apps[r].window_ids[n.window_id] ELSE 0)
        /\ n.kind \in WindowKinds => e.window_id # 0
        /\ n.kind = "UserEvent" => e.inner = n.inner

\* C11: every event the engine passes to the closure reaches handle_event
\* exactly once, as its translation, before the engine passes the next one:
\* outside the closure no event is held and the invocations of handle_event
\* equal the events taken; between bind and invocation exactly the event in
\* flight is outstanding; from the invocation on the handler holds the
\* translation of that event.
C11_EachEventOnceInOrder ==
    \A r \in 1..Len(runs) :
        /\ runs[r].pc \notin InClosure =>
                runs[r].nev = NoEvent /\ runs[r].invoked = runs[r].taken
        /\ runs[r].pc = "bound" =>
                runs[r].nev # NoEvent /\ runs[r].invoked + 1 = runs[r].taken
        /\ runs[r].pc \in {"handler", "apply", "unbind", "unwind"} =>
                runs[r].invoked = runs[r].taken /\ HoldsTranslation(r)

\* a second event of a run is being handled, a device event after the first
C11_Witness ==
    \E r \in 1..Len(runs) :
        /\ runs[r].pc = "handler"
        /\ runs[r].taken = 2
        /\ runs[r].invoked = 2
        /\ runs[r].nev.kind = "DeviceEvent"
        /\ runs[r].ev.kind = "DeviceEvent"

\* ---------------------------------------------------------------------
\* the step of run r from position a to position b is a step of the pipeline
\* in its order
InPipelineOrder(r, a, b) ==
    /\ b = "bound" => a = "pump" /\ slot'[LoopThread] = r
    /\ b = "handler" => a = "bound" /\ slot' = slot
    /\ b = "apply" => a = "handler" /\ slot' = slot
    /\ b = "unbind" => a = "apply" /\ slot' = slot
    /\ b = "unwind" => a = "handler" /\ slot' = slot
    /\ a = "unbind" => b \in {"pump", "render", "exited"} /\ slot'[LoopThread] = Null
    /\ a = "unwind" => b = "panicked" /\ slot'[LoopThread] = Null

\* C12: the pipeline of an event runs bind, translate and invoke, apply,
\* unbind in that order, one event at a time per App (each loop run owns its
\* App): a run enters the closure only from the pump, and the control flow
\* of a run changes only in the step that follows the return of its handler
\* and precedes the drop of its guard (or when the engine starts a pump).
C12_PipelineOrdered ==
    [][\A r \in 1..Len(runs) :
          /\ runs'[r].pc # runs[r].pc => InPipelineOrder(r, runs[r].pc, runs'[r].pc)
          /\ runs'[r].cf # runs[r].cf =>
                \/ /\ runs[r].pc = "apply"
                   /\ runs'[r].pc = "unbind"
                   /\ runs'[r].cf = runs[r].directive
                \/ /\ runs[r].pc = "quit"
                   /\ runs'[r].pc = "pump"
                   /\ runs'[r].cf = EngineControlFlow]_vars

\* Exit has been applied in a nested run whose guard is not yet dropped,
\* while the handler of the outer run is still active on its own App
C12_Witness ==
    /\ Len(stack) = 2
    /\ runs[stack[1]].pc = "handler"
    /\ runs[stack[2]].pc = "unbind"
    /\ runs[stack[2]].cf = "Exit"
    /\ slot[LoopThread] = stack[2]

\* ---------------------------------------------------------------------
\* C13: Keep leaves the control flow of the native loop as it is and every
\* other directive overwrites it: whenever no returned directive is waiting
\* to be applied, the control flow of a run is the last directive other than
\* Keep its handler has returned in the current pump, or the value the engine
\* started the pump with if there is none.
C13_ControlFlowIsLastNonKeep ==
    \A r \in 1..Len(runs) :
        runs[r].pc # "apply" =>
            runs[r].cf = (IF runs[r].lastSet = "None" THEN EngineControlFlow ELSE runs[r].lastSet)

\* Keep has just been applied after WaitUntil: the control flow is still WaitUntil
C13_Witness ==
    \E r \in 1..Len(runs) :
        /\ runs[r].pc = "unbind"
        /\ runs[r].directive = "Keep"
        /\ runs[r].lastSet = "WaitUntil"
        /\ runs[r].cf = "WaitUntil"

\* ---------------------------------------------------------------------
\* C14: a create_window that succeeds inserts one new mapping into the
\* registry of its App, for the native id of the new window, and the Window
\* carries the stable id of that mapping; and a window event handed to the
\* handler carries the stable id the registry has for its native window,
\* which is the id create_window put into the Window.
C14_CreateInsertsOneMapping ==
    [][/\ (last'.op \in WindowOps /\ last'.app # 0 /\ last' # last) =>
            LET a == last'.app
                n == last'.native
            IN  /\ apps[a].window_ids[n] = 0
                /\ apps'[a].window_ids[n] = last'.id
                /\ \A m \in NativeIds \ {n} : apps'[a].window_ids[m] = apps[a].window_ids[m]
       /\ \A r \in 1..Len(runs') :
            (runs'[r].pc = "handler" /\ runs'[r].nev.kind \in WindowKinds) =>
                /\ runs'[r].ev.window_id = apps'[r].window_ids[runs'[r].nev.window_id]
                /\ runs'[r].ev.window_id \in given'[r]]_vars

\* ---------------------------------------------------------------------
\* C15: create_proxy needs no context: it succeeds on either thread, with or
\* without a bound context, and leaves the CURRENT_TARGET cells and the
\* registries as they are; and a send_event through a proxy succeeds on a
\* thread whose cell is null as long as the loop of the proxy is alive.
C15_ProxyNeedsNoContext ==
    [][/\ last'.op = "create_proxy" =>
            last'.result = Ok /\ slot' = slot /\ apps' = apps /\ runs'[last'.app].proxy
       /\ (last'.op = "send_event" /\ LoopAlive(last'.app)) =>
            last'.result = Ok /\ slot' = slot /\ apps' = apps]_vars

\* the background thread, whose cell is null, has created a proxy while the
\* loop thread is inside a callback with a bound context
C15_Witness ==
    /\ last.op = "create_proxy"
    /\ last.thread = "bg"
    /\ last.target = Null
    /\ last.result = Ok
    /\ runs[last.app].proxy
    /\ slot[LoopThread] # Null

\* ---------------------------------------------------------------------
\* the user event the closure of run r has taken and not yet handed over
InFlight(r) ==
    IF runs[r].pc = "bound" /\ runs[r].nev.kind = "UserEvent"
    THEN <<runs[r].nev.inner>>
    ELSE <<>>

\* the payloads of the sends accepted, in the order of acceptance
Payloads(sends) == [k \in 1..Len(sends) |-> sends[k].payload]

DeliveredIsPrefixOfAccepted ==
    \A r \in 1..Len(runs) :
        Payloads(runs[r].sent) = runs[r].got \o InFlight(r) \o runs[r].inbox

\* send_event has accepted k user events for the loop of the first run
Accepted(k) == IF runs = <<>> THEN FALSE ELSE Len(runs[1].sent) >= k

\* the loop of the first run has delivered k user events, or it is over
DeliveredOrOver(k) ==
    IF runs = <<>> THEN FALSE ELSE Len(runs[1].got) >= k \/ ~LoopAlive(1)

C17_SendAfterEndFails ==
    [][/\ (last'.op = "send_event" /\ ~LoopAlive(last'.app)) =>
            /\ last'.result.kind = "Message"
            /\ last'.result.details = EventLoopClosedText
            /\ runs' = runs
       /\ \A r \in 1..Len(runs) :
            ~LoopAlive(r) =>
                /\ runs'[r].got = runs[r].got
                /\ runs'[r].inbox = runs[r].inbox
                /\ runs'[r].invoked = runs[r].invoked]_vars

\* the background thread has sent an event after run_return_loop returned
\* and got the error
C17_Witness ==
    /\ last.op = "send_event"
    /\ last.thread = "bg"
    /\ last.result.kind = "Message"
    /\ runs[last.app].pc = "returned"
    /\ runs[last.app].inbox = <<>>

\* ---------------------------------------------------------------------
\* enum TaoEvent
TaoEventKinds == SameNameKinds \cup {"Other"}

\* enum TaoWindowEvent
TaoWindowVariants ==
    {"CloseRequested", "Destroyed", "DroppedFile", "KeyboardInput", "ModifiersChanged",
     "CursorMoved", "CursorEntered", "MouseInput", "Moved", "ThemeChanged", "Other"}

\* enum TaoDeviceEvent
TaoDeviceVariants == {"MouseMotion", "MouseWheel", "Button", "Key", "Other"}

\* payload p of a native event became payload q over the variants in names:
\* itself if the variant has a name there, else Other with the text of p
ConvertedInto(p, q, names) ==
    /\ q.variant \in names
    /\ IF p.variant \in names \ {"Other"}
       THEN q = p
       ELSE q.variant = "Other" /\ q.value = p.variant

\* C18: convert_event is total: whatever event the engine pumps, the handler
\* gets one TaoEvent variant, the variant of the same name if there is one
\* and otherwise Other with the text of the event; the same holds for the
\* window event and the device event inside, and the window id is the one the
\* registry resolves the native id to.
C18_ConvertTotal ==
    \A r \in 1..Len(runs) :
        runs[r].pc = "handler" =>
            LET n == runs[r].nev
                e == runs[r].ev
            IN  /\ e.kind \in TaoEventKinds
                /\ IF n.kind \in SameNameKinds
                   THEN e.kind = n.kind
                   ELSE e.kind = "Other" /\ e.inner.value = n.kind
                /\ n.kind = "WindowEvent" => ConvertedInto(n.inner, e.inner, TaoWindowVariants)
                /\ n.kind = "DeviceEvent" => ConvertedInto(n.inner, e.inner, TaoDeviceVariants)
                /\ n.kind = "NewEvents" => e.inner = n.inner
                /\ n.kind \in WindowKinds => e.window_id = apps[r].window_ids[n.window_id]

\* a window event the binding has no variant for has reached the handler as
\* TaoWindowEvent::Other with its text
C18_Witness ==
    \E r \in 1..Len(runs) :
        /\ runs[r].pc = "handler"
        /\ runs[r].nev.kind = "WindowEvent"
        /\ runs[r].nev.inner.variant = "Resized"
        /\ runs[r].ev.kind = "WindowEvent"
        /\ runs[r].ev.inner = Rendered("Resized")
        /\ runs[r].ev.window_id # 0

\* ---------------------------------------------------------------------
\* the filter the native loop of run r works under is the configured one
FilterInstalled(r) ==
    LET f == runs[r].config.device_event_filter
    IN  /\ f = "Always" <=> runs[r].filter = "tao::Always"
        /\ f = "Unfocused" <=> runs[r].filter = "tao::Unfocused"
        /\ f = "Never" <=> runs[r].filter = "tao::Never"

\* the handler of run r is being given a device event
ReceivesDeviceEvent(r) == runs[r].pc = "handler" /\ runs[r].ev.kind = "DeviceEvent"

C20_RunReturnUnsupportedOnIos ==
    [][platform = "ios" =>
          /\ \A r \in 1..Len(runs') : runs'[r].mode # "run_return"
          /\ last'.op = "run_return_loop" =>
                /\ last'.result = TaoError_Unsupported
                /\ runs' = runs
                /\ apps' = apps
                /\ stack' = stack
                /\ slot' = slot]_vars

\* on iOS the host code has called run_return_loop first thing and got
\* Unsupported
C20_Witness ==
    /\ platform = "ios"
    /\ last.op = "run_return_loop"
    /\ last.result = TaoError_Unsupported
    /\ runs = <<>>

\* where each raw-handle accessor belongs: the platforms it is compiled for,
\* the display server whose windows have the object, and the object it names
HandleHome(name) ==
    CASE name = "ns_view_handle" -> [os |-> {"macos"}, display |-> "appkit", object |-> "NSView"]
      [] name = "ns_window_handle" ->
           [os |-> {"macos"}, display |-> "appkit", object |-> "NSWindow"]
      [] name = "hwnd_handle" -> [os |-> {"windows"}, display |-> "win32", object |-> "HWND"]
      [] name = "hinstance_handle" ->
           [os |-> {"windows"}, display |-> "win32", object |-> "HINSTANCE"]
      [] name = "xlib_window_handle" ->
           [os |-> UnixFamily, display |-> "x11", object |-> "X11 Window"]
      [] name = "xlib_display_handle" ->
           [os |-> UnixFamily, display |-> "x11", object |-> "X11 Display"]
      [] name = "xlib_screen_id" ->
           [os |-> UnixFamily, display |-> "x11", object |-> "X11 Screen"]
      [] name = "wayland_surface_handle" ->
           [os |-> UnixFamily, display |-> "wayland", object |-> "wl_surface"]
      [] name = "wayland_display_handle" ->
           [os |-> UnixFamily, display |-> "wayland", object |-> "wl_display"]

\* C21: a raw-handle accessor of Window that has just returned gave a handle
\* exactly when the build's platform and the window's display server are its
\* own, and then the handle names its own kind of object; in every other case
\* it returned TaoError::Unsupported and no handle.
C21_HandleOnlyOnOwnPlatform ==
    last.op \in HandleAccessors =>
        LET home == HandleHome(last.op)
        IN  IF platform \in home.os /\ last.arg.display = home.display
            THEN last.result = Ok /\ last.ret = [handle |-> home.object]
            ELSE last.result = TaoError_Unsupported /\ last.ret = NoValue

\* xlib_window_handle on a Wayland window of a Linux build returned Unsupported
C21_Witness ==
    /\ last.op = "xlib_window_handle"
    /\ platform = "linux"
    /\ calls = NoCalls
    /\ last.arg.display = "wayland"
    /\ last.result = TaoError_Unsupported

\* the platform fields a backend can create a surface from
RelevantFields(b) ==
    CASE b = "Metal" -> {"ns_view", "ui_view"}
      [] b = "DirectX12" -> {"hwnd"}
      [] b = "Vulkan" -> {"hwnd", "xlib_window", "wayland_surface", "android_native_window"}
      [] b = "OpenGL" -> {"ns_view", "hwnd", "xlib_window", "wayland_surface"}

SomeRelevantPopulated(h) == \E f \in RelevantFields(h.backend) : h[f].some

\* C24: is_valid answers true exactly for a handle with a populated field
\* relevant to its backend tag; the empty handle is invalid under every
\* backend tag; raw_window_handle_for_backend (and raw_window_handle) returns
\* either Ok with a handle that has such a field or TaoError::Unsupported.
C24_ValidKeyedOnBackend ==
    /\ last.op = "is_valid" => (last.ret.bool <=> SomeRelevantPopulated(last.arg))
    /\ last.op = "empty" => ~last.ret.bool
    /\ last.op \in {"raw_window_handle_for_backend", "raw_window_handle"} =>
           IF last.result = Ok
           THEN SomeRelevantPopulated(last.ret)
           ELSE last.result = TaoError_Unsupported /\ last.ret = NoValue

\* a Windows window asked for a Metal handle: hwnd is populated, the handle is
\* not valid for Metal, the call returned Unsupported
C24_Witness ==
    /\ last.op = "raw_window_handle_for_backend"
    /\ platform = "windows"
    /\ last.arg.backend = "Metal"
    /\ last.result = TaoError_Unsupported

\* C25: the backend default_for_platform returns is supported on the build's
\* platform; is_supported answers true for OpenGL on every platform, for Metal
\* only on macOS and iOS, for DirectX12 only on Windows.
C25_DefaultBackendSupported ==
    /\ last.op = "default_for_platform" =>
           /\ last.ret.backend \in GraphicsBackends
           /\ is_supported(last.ret.backend, platform)
    /\ last.op = "is_supported" =>
           /\ last.arg.backend = "OpenGL" => last.ret.bool
           /\ last.arg.backend = "Metal" /\ last.ret.bool => platform \in {"macos", "ios"}
           /\ last.arg.backend = "DirectX12" /\ last.ret.bool => platform = "windows"

\* default_for_platform on an Android build returned Vulkan
C25_Witness ==
    /\ last.op = "default_for_platform"
    /\ platform = "android"
    /\ last.ret.backend = "Vulkan"

C26_ConversionsPreserveVariant ==
    /\ last.op = "into;from" =>
           /\ last.ret.native = Variant("tao::" \o last.arg.ty, last.arg.variant, last.arg.value)
           /\ last.ret.back = last.arg
    /\ last.op = "DeviceEventFilter::into" =>
           last.ret.filter = "tao::" \o last.arg.variant

\* MouseButton::Other { value: 65535 } has gone to the engine's form and back
C26_Witness ==
    /\ last.op = "into;from"
    /\ last.arg = Variant("MouseButton", "Other", 65535)
    /\ last.ret.native = Variant("tao::MouseButton", "Other", 65535)
    /\ last.ret.back = Variant("MouseButton", "Other", 65535)

\* the window with native id n is alive and was built through App a
BuiltThrough(a, n) ==
    n \in live /\ apps[a].window_ids[n] # 0 /\ apps[a].window_ids[n] \in given[a]

\* C23: across all loop runs of the process, two distinct windows that exist
\* at the same time never carry the same StableWindowId.
C23_StableIdUniquePerProcess ==
    \A a1, a2 \in 1..Len(apps) : \A n1, n2 \in NativeIds :
        (n1 # n2 /\ BuiltThrough(a1, n1) /\ BuiltThrough(a2, n2)) =>
            apps[a1].window_ids[n1] # apps[a2].window_ids[n2]

\* the loop thread is inside should_quit() or render() of a cooperative loop
InQuitOrRender ==
    stack # <<>> /\ runs[Top].mode = "run_return" /\ runs[Top].pc \in {"quit", "render"}

\* the loop thread's slot is null, and a context-bound operation that has just
\* returned on the loop thread failed with the error of an unbound with_target
UnboundOnLoopThread ==
    /\ slot[LoopThread] = Null
    /\ (last.op \in ContextOps /\ last.thread = LoopThread) =>
           last.result = TaoError_message(NoActiveTarget)

\* C28 as stated: during every should_quit() and every render() of a
\* cooperative loop the loop thread's slot is null and a context-bound
\* operation called there fails with the not-bound error.
C28_UnboundInQuitAndRender == InQuitOrRender => UnboundOnLoopThread

\* C28: during should_quit() and render() of a cooperative loop, unless a
\* handle_event invocation of another loop run is in progress on the thread,
\* the slot is null and a context-bound operation called there fails with the
\* Message error of an unbound with_target.
C28_UnboundInQuitAndRenderOutsideCallbacks ==
    (InQuitOrRender /\ ~InvocationInProgress(LoopThread)) => UnboundOnLoopThread

\* create_window called from render() has failed with the unbound error
C28_Witness ==
    /\ InQuitOrRender
    /\ runs[Top].pc = "render"
    /\ ~InvocationInProgress(LoopThread)
    /\ last.op = "create_window"
    /\ last.thread = LoopThread
    /\ last.result = TaoError_message(NoActiveTarget)

\* C29: a create_window call that fails, for lack of a bound context or
\* because the engine rejects the builder, leaves every registry, every id
\* counter and the set of windows as they were and returns no Window; and a
\* create_window call, failed or not, leaves the builder it was given as it was.
C29_FailedCreateChangesNothing ==
    [][ (last'.op \in WindowOps /\ last' # last) =>
            /\ last'.result # Ok =>
                   /\ apps' = apps
                   /\ seen' = seen
                   /\ given' = given
                   /\ live' = live
                   /\ last'.native = 0
                   /\ last'.id = 0
            /\ last'.ret.builder = last'.arg.builder ]_vars

\* the engine has rejected a builder while a window was registered
C29_Witness ==
    /\ last.op = "create_window"
    /\ last.result = TaoError_from_OsError
    /\ last.target # Null
    /\ last.arg.builder # WindowBuilder_new
    /\ \E a \in 1..Len(apps) : apps[a].next_window_id > 1

\* the handler of cooperative loop r answers true to every poll from now on
QuitForGood(r) == r <= Len(runs) /\ runs[r].mode = "run_return" /\ runs[r].quitNow # "no"

\* what the call trace of run r holds after position k
Since(r, k) == SubSeq(runs[r].trace, k + 1, Len(runs[r].trace))

\* C30: a cooperative loop has returned exactly if its last should_quit()
\* poll answered true, and then with Ok; a handler's Exit ends the batch and
\* leaves the loop running; once should_quit() answers true for good at most
\* one more batch and one more render() follow; and, if every batch (the
\* engine's pump and the event closures) that is entered ends, the call then
\* eventually returns.
C30_ReturnsExactlyOnQuit ==
    /\ [](/\ \A r \in 1..Len(runs) :
                runs[r].mode = "run_return" =>
                    /\ runs[r].pc = "returned" <=>
                           (runs[r].trace # <<>>
                               /\ runs[r].trace[Len(runs[r].trace)] = "quit_true")
                    /\ Count(runs[r].trace, "quit_true") = 0 => runs[r].pc # "returned"
                    /\ (runs[r].lastSet = "Exit" /\ runs[r].pc \in {"pump"} \cup InClosure
                            \cup {"render", "quit"}) => r \in {stack[k] : k \in 1..Len(stack)}
                    /\ runs[r].quitNow # "no" =>
                           /\ Count(Since(r, runs[r].quitAt), "batch") <= 1
                           /\ Count(Since(r, runs[r].quitAt), "render") <= 1
          /\ (last.op = "run_return_loop" /\ last.app # 0) =>
                 /\ last.result = Ok
                 /\ runs[last.app].pc = "returned")
    /\ (\A r \in 1..MaxRuns :
            []((r <= Len(runs) /\ runs[r].pc \in {"pump"} \cup InClosure) =>
                   <>(~(r <= Len(runs) /\ runs[r].pc \in {"pump"} \cup InClosure)))) =>
           \A r \in 1..MaxRuns :
               (QuitForGood(r) ~> (r <= Len(runs) /\ runs[r].pc = "returned"))

\* should_quit() became true for good while a poll was in progress; that poll
\* answered false, one more batch and one more render() followed, and the
\* next poll made the call return Ok
C30_Witness ==
    /\ last.op = "run_return_loop"
    /\ last.result = Ok
    /\ last.app # 0
    /\ runs[last.app].quitNow = "yes"
    /\ Since(last.app, runs[last.app].quitAt) = <<"quit_false", "batch", "render", "quit_true">>

\* counter values threads have taken from App a and not yet inserted
InFlightIds(a) ==
    {calls.frame[t].next : t \in {u \in Threads : calls.frame[u].app = a
                                                  /\ calls.frame[u].pc = "fetched"}}

\* C27: with map_window_id called from several threads on one App, every id
\* a call has returned for a native id is the one id the registry holds for
\* it; the ids assigned to distinct native ids are distinct; the counter
\* values consumed are exactly the ids inserted plus the one a thread holding
\* the lock is about to insert, so that when no call is in progress the
\* assigned ids are 1..n without a gap.
C27_RegistryConcurrentSafe ==
    \A a \in 1..Len(apps) :
        /\ \A o \in calls.observed : o[2] = a => apps[a].window_ids[o[3]] = o[4]
        /\ \A n1, n2 \in NativeIds :
               (n1 # n2 /\ apps[a].window_ids[n1] # 0) =>
                   apps[a].window_ids[n1] # apps[a].window_ids[n2]
        /\ Assigned(apps[a]) \cup InFlightIds(a) = 1..(apps[a].next_window_id - 1)
        /\ Cardinality(InFlightIds(a)) <= 1
        /\ Assigned(apps[a]) \cap InFlightIds(a) = {}
        /\ apps[a].lock = "none" => Assigned(apps[a]) = 1..(apps[a].next_window_id - 1)

\* both threads have asked for both native ids and each got the same answer
\* as the other
C27_Witness ==
    /\ Len(apps) = 1
    /\ \A n \in NativeIds : \E x \in 1..NumNative :
           {<<t, 1, n, x>> : t \in Threads} \subseteq calls.observed
    /\ apps[1].next_window_id = NumNative + 1

====
